---- MODULE Spec2Model ----
(***************************************************************************)
(* ClearLine redistricting engine: the worker pool scheduler               *)
(* (src/src/core/WorkerManager.ts, the later class, lines 75-199), the     *)
(* worker-side message handler (src/src/workers/main.worker.ts) and the    *)
(* partition algorithms it runs (src/src/core/algorithms.ts, lines 1-244). *)
(*                                                                         *)
(* The coordinating context is single threaded: every scheduler handler    *)
(* (sendMessage, handleWorkerResponse, resizePool, updateLoad, terminate)  *)
(* is one atomic action.  A worker is an isolated event loop with an inbox *)
(* of posted messages and an outbox of responses on their way back.        *)
(* A terminated worker delivers nothing more: its inbox and outbox vanish  *)
(* with it.                                                                *)
(*                                                                         *)
(* JavaScript values are tagged records here: a response's data is         *)
(* [str |-> s], [ack |-> b] or [updates |-> f]; a Map is a function whose  *)
(* DOMAIN is the key set (iteration order is not modelled: no result       *)
(* depends on it).  Floating point is idealised as exact arithmetic.       *)
(***************************************************************************)
EXTENDS Integers, Sequences, FiniteSets, TLC

VARIABLES
  workers,           \* WorkerManager.workers: one record per Worker object
  workerBusy,        \* WorkerManager.workerBusy
  poolSize,          \* WorkerManager.poolSize
  taskQueue,         \* WorkerManager.taskQueue: <<[message, future]>>
  pendingResponses,  \* WorkerManager.pendingResponses: message id -> future
  futures,           \* the promises returned by sendMessage, by creation order
  torn,              \* history: terminate() has been called
  tornAt,            \* history: how many futures existed at the last terminate() call
  sent,              \* history: per future, the message sendMessage created with it
  settledBy,         \* history: per future, the id of the response that settled it (0: none)
  posted             \* history: per message id, how many times it was postMessage'd

vars == <<workers, workerBusy, poolSize, taskQueue, pendingResponses, futures,
          torn, tornAt, sent, settledBy, posted>>

----------------------------------------------------------------------------
(* Bounds of the model *)

\* submissions in one behaviour of Spec
MaxTasks == 4

\* submissions in one behaviour of SpecData
MaxDataTasks == 3

\* the number of tasks submitted in SpecRuns
MaxRunTasks == 2

\* the number of tasks submitted in SpecCost
MaxCostTasks == 3

\* the number of tasks submitted in SpecSeed
MaxSeedTasks == 3

\* the number of tasks submitted in SpecLoad: one running and more than
\* QueueBacklog waiting
MaxLoadTasks == 7

\* the workers SpecData starts with
DataPoolSize == 2

\* navigator.hardwareConcurrency || 4
Cores == 3

(* Program constants *)
MinWorkers == 1
MaxInitialPool == 12
CoresReserved == 2
LowFps == 30
HighFps == 55
HighMem == 500
LowMem == 300
QueueBacklog == 5

Max(a, b) == IF a >= b THEN a ELSE b
Min(a, b) == IF a <= b THEN a ELSE b

FpsValues == {20, 40, 60}
MemValues == {200, 600}
SizeValues == 0 .. (Cores + 1)

----------------------------------------------------------------------------
(* Partition algorithms: src/src/core/algorithms.ts *)

Iterations == 2000
MaxAttempts == 100

RECURSIVE SumOver(_, _)
\* the sum of f[x] for x in S
SumOver(f, S) ==
  IF S = {} THEN 0
  ELSE LET x == CHOOSE y \in S : TRUE IN f[x] + SumOver(f, S \ {x})

Abs(x) == IF x < 0 THEN -x ELSE x

RECURSIVE Fact(_)
Fact(n) == IF n <= 1 THEN 1 ELSE n * Fact(n - 1)

\* the precinct of the array ps (a set of records) with the given id
ById(ps, id) == CHOOSE p \in ps : p.id = id

Ids(ps) == {p.id : p \in ps}

RECURSIVE PickCentersZeroBased(_, _, _, _, _)
\* PickCenters numbering the centers from 0 (id: i where the code has i + 1)
PickCentersZeroBased(ps, districtCount, i, usedSeeds, centers) ==
  IF i >= districtCount THEN {centers}
  ELSE
    UNION {PickCentersZeroBased(ps, districtCount, i + 1, usedSeeds \cup {p.id},
                                Append(centers, [x |-> p.x, y |-> p.y, id |-> i]))
             : p \in {q \in ps : q.id \notin usedSeeds}}
    \cup (IF usedSeeds # {} /\ MaxAttempts > 0
            THEN PickCentersZeroBased(ps, districtCount, i + 1, usedSeeds, centers)
            ELSE {})

RECURSIVE PickCenters(_, _, _, _, _)
\* seedAndGrow, step 1: every sequence of centers the random draws can give.
\* Seed i is a precinct not used yet; it is skipped when all MaxAttempts
\* draws hit used precincts, which takes at least one used precinct.
PickCenters(ps, districtCount, i, usedSeeds, centers) ==
  IF i >= districtCount THEN {centers}
  ELSE
    UNION {PickCenters(ps, districtCount, i + 1, usedSeeds \cup {p.id},
                       Append(centers, [x |-> p.x, y |-> p.y, id |-> i + 1]))
             : p \in {q \in ps : q.id \notin usedSeeds}}
    \cup (IF usedSeeds # {} /\ MaxAttempts > 0
            THEN PickCenters(ps, districtCount, i + 1, usedSeeds, centers)
            ELSE {})

RECURSIVE ClosestFrom(_, _, _, _, _)
\* seedAndGrow, step 2, the loop over centers from index j; minDist -1 is Infinity
ClosestFrom(p, centers, j, minDist, closestDistrict) ==
  IF j > Len(centers) THEN closestDistrict
  ELSE LET dx == p.x - centers[j].x
           dy == p.y - centers[j].y
           distSq == dx * dx + dy * dy
       IN IF minDist = -1 \/ distSq < minDist
            THEN ClosestFrom(p, centers, j + 1, distSq, centers[j].id)
            ELSE ClosestFrom(p, centers, j + 1, minDist, closestDistrict)

\* seedAndGrow(precincts, {districtCount}): the set of maps it can return
seedAndGrow(ps, districtCount) ==
  {[id \in Ids(ps) |-> ClosestFrom(ById(ps, id), centers, 1, -1, 1)]
     : centers \in PickCenters(ps, districtCount, 0, {}, << >>)}

\* districtStatsBuffer after the aggregation loop: entries 0 .. districtCount
\* exist, a write for any other district id falls outside the typed array
\* and is dropped
districtStatsBuffer(ps, districtCount, assignment) ==
  [d \in 0 .. districtCount |->
     LET here == {id \in Ids(ps) : assignment[id] = d} IN
       [j \in 1 .. 8 |->
          SumOver([id \in Ids(ps) |->
                     IF j <= 6 THEN ById(ps, id).stats[j]
                     ELSE ById(ps, id).stats[j] * ById(ps, id).stats[1]], here)]]

districtSlopesBuffer(ps, districtCount, assignment) ==
  [d \in 0 .. districtCount |->
     LET here == {id \in Ids(ps) : assignment[id] = d} IN
       [j \in 1 .. 6 |->
          SumOver([id \in Ids(ps) |-> ById(ps, id).slopes[j]], here)]]

\* totalPop of calculateCost
TotalPop(ps) == SumOver([id \in Ids(ps) |-> ById(ps, id).stats[1]], Ids(ps))

\* a quotient n / d as a pair with a positive denominator
Rat(n, d) == IF d < 0 THEN [n |-> -n, d |-> -d] ELSE [n |-> n, d |-> d]

MetricIndex(metric) ==
  CASE metric = "population" -> 1
    [] metric = "demVotes" -> 2
    [] metric = "repVotes" -> 3
    [] metric = "white" -> 4
    [] metric = "black" -> 5
    [] metric = "hispanic" -> 6
    [] metric = "education" -> 7
    [] metric = "income" -> 8
    [] OTHER -> 0

\* val of calculateCost for constraint c on a district with stats st, slopes sl
MetricValue(c, st, sl) ==
  LET j == MetricIndex(c.metric) IN
    IF c.metricType = "growth"
      THEN IF j \in 1 .. 6
             THEN IF st[j] # 0 THEN Rat(sl[j] * 100, st[j]) ELSE Rat(0, 1)
             ELSE Rat(0, 1)
    ELSE IF j \in 1 .. 6 THEN Rat(st[j], 1)
    ELSE IF j \in 7 .. 8 THEN Rat(st[j], st[1])
    ELSE Rat(0, 1)

\* Meets whose between leaves the upper bound out
MeetsExclusive(c, val) ==
  CASE c.operator = ">" -> val.n > c.value * val.d
    [] c.operator = "<" -> val.n < c.value * val.d
    [] c.operator = ">=" -> val.n >= c.value * val.d
    [] c.operator = "<=" -> val.n <= c.value * val.d
    [] c.operator = "~=" ->
         /\ 20 * val.n >= 19 * c.value * val.d
         /\ 20 * val.n <= 21 * c.value * val.d
    [] c.operator = "between" ->
         LET max == IF c.maxValue = << >> THEN c.value ELSE c.maxValue[1] IN
           val.n >= c.value * val.d /\ val.n < max * val.d
    [] OTHER -> FALSE

\* meets of calculateCost: the operator switch
Meets(c, val) ==
  CASE c.operator = ">" -> val.n > c.value * val.d
    [] c.operator = "<" -> val.n < c.value * val.d
    [] c.operator = ">=" -> val.n >= c.value * val.d
    [] c.operator = "<=" -> val.n <= c.value * val.d
    [] c.operator = "~=" ->
         /\ 20 * val.n >= 19 * c.value * val.d
         /\ 20 * val.n <= 21 * c.value * val.d
    [] c.operator = "between" ->
         LET max == IF c.maxValue = << >> THEN c.value ELSE c.maxValue[1] IN
           val.n >= c.value * val.d /\ val.n <= max * val.d
    [] OTHER -> FALSE

\* the denominator all costs of one simulatedAnnealing call are written over
CostDen(ps, districtCount) ==
  (IF TotalPop(ps) = 0 THEN 1 ELSE TotalPop(ps)) * Fact(districtCount)

\* calculateCost that counts the districts nobody lives in as well
calculateCostCountingEmpty(ps, districtCount, constraints, assignment) ==
  LET stats == districtStatsBuffer(ps, districtCount, assignment)
      slopes == districtSlopesBuffer(ps, districtCount, assignment)
      totalPop == TotalPop(ps)
      den == CostDen(ps, districtCount)
      popCost ==
        SumOver([d \in 1 .. districtCount |->
                   Fact(districtCount) * Abs(districtCount * stats[d][1] - totalPop)],
                1 .. districtCount)
      active == 1 .. districtCount
      totalDistricts == Cardinality(active)
      ConstraintCost(c) ==
        LET districtsMeeting ==
              Cardinality({d \in active :
                             Meets(c, MetricValue(c, stats[d], slopes[d]))})
            share == Fact(districtCount) \div
                       (IF totalDistricts < 1 THEN 1 ELSE totalDistricts)
        IN (den \div Fact(districtCount)) * 10 *
             Abs(100 * districtsMeeting * share
                   - c.targetPercent * Fact(districtCount))
  IN popCost
       + SumOver([i \in 1 .. Len(constraints) |-> ConstraintCost(constraints[i])],
                 1 .. Len(constraints))

\* calculateCost whose constraint deviation keeps its sign
calculateCostSigned(ps, districtCount, constraints, assignment) ==
  LET stats == districtStatsBuffer(ps, districtCount, assignment)
      slopes == districtSlopesBuffer(ps, districtCount, assignment)
      totalPop == TotalPop(ps)
      den == CostDen(ps, districtCount)
      popCost ==
        SumOver([d \in 1 .. districtCount |->
                   Fact(districtCount) * Abs(districtCount * stats[d][1] - totalPop)],
                {d \in 1 .. districtCount : stats[d][1] > 0})
      active == {d \in 1 .. districtCount : stats[d][1] # 0}
      totalDistricts == Cardinality(active)
      ConstraintCost(c) ==
        LET districtsMeeting ==
              Cardinality({d \in active :
                             Meets(c, MetricValue(c, stats[d], slopes[d]))})
            share == Fact(districtCount) \div
                       (IF totalDistricts < 1 THEN 1 ELSE totalDistricts)
        IN (den \div Fact(districtCount)) * 10 *
             (100 * districtsMeeting * share
                - c.targetPercent * Fact(districtCount))
  IN popCost
       + SumOver([i \in 1 .. Len(constraints) |-> ConstraintCost(constraints[i])],
                 1 .. Len(constraints))

\* calculateCost(assignment) * CostDen: the population deviation
\* |pop - targetPop| / targetPop of every district with pop > 0, plus
\* |percentMet - targetPercent| * 10 for every constraint
calculateCost(ps, districtCount, constraints, assignment) ==
  LET stats == districtStatsBuffer(ps, districtCount, assignment)
      slopes == districtSlopesBuffer(ps, districtCount, assignment)
      totalPop == TotalPop(ps)
      den == CostDen(ps, districtCount)
      popCost ==
        SumOver([d \in 1 .. districtCount |->
                   Fact(districtCount) * Abs(districtCount * stats[d][1] - totalPop)],
                {d \in 1 .. districtCount : stats[d][1] > 0})
      active == {d \in 1 .. districtCount : stats[d][1] # 0}
      totalDistricts == Cardinality(active)
      ConstraintCost(c) ==
        LET districtsMeeting ==
              Cardinality({d \in active :
                             Meets(c, MetricValue(c, stats[d], slopes[d]))})
            share == Fact(districtCount) \div
                       (IF totalDistricts < 1 THEN 1 ELSE totalDistricts)
        IN (den \div Fact(districtCount)) * 10 *
             Abs(100 * districtsMeeting * share
                   - c.targetPercent * Fact(districtCount))
  IN popCost
       + SumOver([i \in 1 .. Len(constraints) |-> ConstraintCost(constraints[i])],
                 1 .. Len(constraints))

\* SAStep whose rejected proposal is not reverted: the move stays in the
\* assignment while the tracked cost stays the old one
SAStepNoRevert(ps, districtCount, constraints, s) ==
  UNION {
    LET oldDistrict == s.assignment[p.id] IN
      IF newDistrict = oldDistrict THEN {s}
      ELSE LET moved == [s.assignment EXCEPT ![p.id] = newDistrict]
               newCost == calculateCost(ps, districtCount, constraints, moved)
           IN IF newCost <= s.cost
                THEN {[assignment |-> moved, cost |-> newCost]}
                ELSE {[assignment |-> moved, cost |-> newCost],
                      [assignment |-> moved, cost |-> s.cost]}
    : p \in ps, newDistrict \in 1 .. districtCount}

\* one iteration of the annealing loop from s = [assignment, cost]: every
\* outcome of the three random draws.  A proposal that costs more is accepted
\* with probability exp(-delta / temperature) < 1, so both outcomes exist
\* (the probability is positive in the first iterations, where temperature
\* is near 1, for the deltas of the DataStore's regions, at most 501;
\* the iterations left can all draw newDistrict = oldDistrict);
\* at equal cost the probability is 1 and Math.random() < 1 always holds.
SAStep(ps, districtCount, constraints, s) ==
  UNION {
    LET oldDistrict == s.assignment[p.id] IN
      IF newDistrict = oldDistrict THEN {s}
      ELSE LET moved == [s.assignment EXCEPT ![p.id] = newDistrict]
               newCost == calculateCost(ps, districtCount, constraints, moved)
           IN IF newCost <= s.cost
                THEN {[assignment |-> moved, cost |-> newCost]}
                ELSE {[assignment |-> moved, cost |-> newCost], s}
    : p \in ps, newDistrict \in 1 .. districtCount}

RECURSIVE SAIterate(_, _, _, _, _)
\* the states the loop can be in after n more iterations from a state of S;
\* a set the step maps to itself stays the same for the iterations left
SAIterate(ps, districtCount, constraints, S, n) ==
  IF n = 0 THEN S
  ELSE LET T == UNION {SAStep(ps, districtCount, constraints, s) : s \in S} IN
    IF T = S THEN S
    ELSE SAIterate(ps, districtCount, constraints, T, n - 1)

\* simulatedAnnealing(precincts, {districtCount, constraints}): the set of
\* {assignment, cost} it can return
simulatedAnnealing(ps, districtCount, constraints) ==
  LET currentAssignment == [id \in Ids(ps) |-> ById(ps, id).districtId]
      currentCost == calculateCost(ps, districtCount, constraints, currentAssignment)
  IN SAIterate(ps, districtCount, constraints,
               {[assignment |-> currentAssignment, cost |-> currentCost]},
               Iterations)

----------------------------------------------------------------------------
(* Worker side: src/src/workers/main.worker.ts *)

RunsCap == 50000
AutoRunsBase == 100
AutoRunsPerConstraint == 500
DistrictNamespace == 100

\* STATE_APPORTIONMENT of core/Apportionment.ts: regionId -> district count
STATE_APPORTIONMENT == (1 :> [districts |-> 2]) @@ (2 :> [districts |-> 1])

\* the module-level Maps of one worker, empty at start
EmptyRegistry ==
  [precinctDistrictMap |-> << >>, precinctStatsMap |-> << >>,
   precinctSlopesMap |-> << >>, precinctStateMap |-> << >>,
   precinctCoordsMap |-> << >>]

\* Map.prototype.set
MapSet(m, k, v) == [x \in DOMAIN m \cup {k} |-> IF x = k THEN v ELSE m[x]]
\* Map.prototype.delete
MapDelete(m, k) == [x \in DOMAIN m \ {k} |-> m[x]]
\* MapSetAll keeping only the entries written last
MapReplaceAll(m, f) == f

\* m.set(k, f[k]) for every key k of f
MapSetAll(m, f) ==
  [x \in DOMAIN m \cup DOMAIN f |-> IF x \in DOMAIN f THEN f[x] ELSE m[x]]

RECURSIVE LoadAll(_, _, _)
\* LOAD_DATA: precincts.forEach from index i.  A precinct's history is carried
\* as the six regression slopes calculateLinearRegression gives for it.
LoadAll(reg, precincts, i) ==
  IF i > Len(precincts) THEN reg
  ELSE LET p == precincts[i] IN
    LoadAll([precinctDistrictMap |-> MapSet(reg.precinctDistrictMap, p.id, p.districtId),
             precinctStatsMap |-> MapSet(reg.precinctStatsMap, p.id, p.stats),
             precinctSlopesMap |-> MapSet(reg.precinctSlopesMap, p.id, p.slopes),
             precinctStateMap |-> MapSet(reg.precinctStateMap, p.id, p.stateId),
             precinctCoordsMap |->
               IF Len(p.coords) > 0
                 THEN MapSet(reg.precinctCoordsMap, p.id, p.coords)
                 ELSE reg.precinctCoordsMap],
            precincts, i + 1)

SetMin(S) == CHOOSE x \in S : \A y \in S : x <= y
SetMax(S) == CHOOSE x \in S : \A y \in S : x >= y

\* AUTO_REDISTRICT: the centre of the bounding box of the coords, (0, 0) without coords
Centroid(reg, precinctId) ==
  IF precinctId \in DOMAIN reg.precinctCoordsMap
       /\ Len(reg.precinctCoordsMap[precinctId]) > 0
    THEN LET coords == reg.precinctCoordsMap[precinctId]
             xs == {coords[i] : i \in {j \in 1 .. Len(coords) : j % 2 = 1}}
             ys == {coords[i] : i \in {j \in 1 .. Len(coords) : j % 2 = 0}}
         IN [x |-> (SetMin(xs) + SetMax(xs)) \div 2,
             y |-> (SetMin(ys) + SetMax(ys)) \div 2]
    ELSE [x |-> 0, y |-> 0]

\* the keys of statePrecincts: the regions of the precincts that have both a
\* district id and a region id
StateIds(reg) ==
  {reg.precinctStateMap[id] :
     id \in DOMAIN reg.precinctDistrictMap \cap DOMAIN reg.precinctStateMap}

\* statePrecincts.get(stateId): the precinct records of one region
StatePrecincts(reg, stateId) ==
  {[id |-> id,
    districtId |-> reg.precinctDistrictMap[id],
    population |-> reg.precinctStatsMap[id][1],
    x |-> Centroid(reg, id).x,
    y |-> Centroid(reg, id).y,
    stats |-> reg.precinctStatsMap[id],
    slopes |-> reg.precinctSlopesMap[id]]
   : id \in {i \in DOMAIN reg.precinctDistrictMap \cap DOMAIN reg.precinctStateMap :
               reg.precinctStateMap[i] = stateId}}

\* the updates of one region: globalDistrictId = stateId * 100 + localDistrictId
GlobalIds(stateId, assignment) ==
  [id \in DOMAIN assignment |-> stateId * DistrictNamespace + assignment[id]]

RECURSIVE BestOfLast(_, _, _, _)
\* BestOf without the comparison: every run replaces bestAssignment
BestOfLast(rs, i, minCost, bestAssignment) ==
  IF i > Len(rs) THEN bestAssignment
  ELSE BestOfLast(rs, i + 1, rs[i].cost, <<rs[i].assignment>>)

RECURSIVE BestOf(_, _, _, _)
\* the ensemble loop over the run results rs from index i; minCost -1 is Infinity
BestOf(rs, i, minCost, bestAssignment) ==
  IF i > Len(rs) THEN bestAssignment
  ELSE IF minCost = -1 \/ rs[i].cost < minCost
    THEN BestOf(rs, i + 1, rs[i].cost, <<rs[i].assignment>>)
    ELSE BestOf(rs, i + 1, minCost, bestAssignment)

\* RunsOf without the cap of 50000
RunsOfUncapped(payload) ==
  LET userRuns == IF "runs" \in DOMAIN payload THEN payload.runs ELSE 1
      isAuto == IF "isAuto" \in DOMAIN payload THEN payload.isAuto ELSE FALSE
  IN IF isAuto
       THEN AutoRunsBase + Len(payload.constraints) * AutoRunsPerConstraint
       ELSE userRuns

\* the runs of SIMULATED_ANNEALING: userRuns defaults to 1, isAuto to false
RunsOf(payload) ==
  LET userRuns == IF "runs" \in DOMAIN payload THEN payload.runs ELSE 1
      isAuto == IF "isAuto" \in DOMAIN payload THEN payload.isAuto ELSE FALSE
  IN Min(IF isAuto
           THEN AutoRunsBase + Len(payload.constraints) * AutoRunsPerConstraint
           ELSE userRuns,
         RunsCap)

RECURSIVE ChainedRuns(_, _, _, _, _, _, _, _)
\* an ensemble loop in which every run writes its result to the registry
\* and the next run starts from what the registry then holds
ChainedRuns(precincts, stateId, districtCount, constraints, i, runs,
            minCost, bestAssignment) ==
  IF i > runs THEN {bestAssignment}
  ELSE UNION {
    LET written == {[p EXCEPT !.districtId =
                       stateId * DistrictNamespace + r.assignment[p.id]]
                      : p \in precincts}
    IN IF minCost = -1 \/ r.cost < minCost
         THEN ChainedRuns(written, stateId, districtCount, constraints, i + 1,
                          runs, r.cost, <<r.assignment>>)
         ELSE ChainedRuns(written, stateId, districtCount, constraints, i + 1,
                          runs, minCost, bestAssignment)
    : r \in simulatedAnnealing(precincts, districtCount, constraints)}

\* RegionResults with the chained ensemble loop
RegionResultsChained(reg, stateId, type, payload) ==
  IF stateId \notin DOMAIN STATE_APPORTIONMENT THEN {<< >>}
  ELSE LET districtCount == STATE_APPORTIONMENT[stateId].districts
           precincts == StatePrecincts(reg, stateId)
       IN IF type = "AUTO_REDISTRICT"
            THEN {<<a>> : a \in seedAndGrow(precincts, districtCount)}
            ELSE ChainedRuns(precincts, stateId, districtCount,
                             payload.constraints, 1, RunsOf(payload), -1, << >>)

\* RegionResults giving a region without apportionment entry one district
\* where the code skips it
RegionResultsDefaultOne(reg, stateId, type, payload) ==
  LET districtCount == IF stateId \in DOMAIN STATE_APPORTIONMENT
                         THEN STATE_APPORTIONMENT[stateId].districts ELSE 1
      precincts == StatePrecincts(reg, stateId)
  IN IF type = "AUTO_REDISTRICT"
       THEN {<<a>> : a \in seedAndGrow(precincts, districtCount)}
       ELSE LET results == simulatedAnnealing(precincts, districtCount,
                                              payload.constraints)
                runs == RunsOf(payload)
            IN {BestOf(rs, 1, -1, << >>) : rs \in [1 .. runs -> results]}

\* what one region's forEach body can yield: << >> for no update (no
\* apportionment entry, no best assignment), else <<local assignment>>
RegionResults(reg, stateId, type, payload) ==
  IF stateId \notin DOMAIN STATE_APPORTIONMENT THEN {<< >>}
  ELSE LET districtCount == STATE_APPORTIONMENT[stateId].districts
           precincts == StatePrecincts(reg, stateId)
       IN IF type = "AUTO_REDISTRICT"
            THEN {<<a>> : a \in seedAndGrow(precincts, districtCount)}
            ELSE LET results == simulatedAnnealing(precincts, districtCount,
                                                   payload.constraints)
                     runs == RunsOf(payload)
                 IN {BestOf(rs, 1, -1, << >>) : rs \in [1 .. runs -> results]}

RECURSIVE Redistrict(_, _, _, _, _)
\* statePrecincts.forEach over the regions left: the set of
\* [precinctDistrictMap, allUpdates] the handler can end with
Redistrict(reg, left, type, payload, acc) ==
  IF left = {} THEN {acc}
  ELSE LET stateId == CHOOSE r \in left : TRUE IN
    UNION {
      Redistrict(reg, left \ {stateId}, type, payload,
                 IF best = << >> THEN acc
                 ELSE [precinctDistrictMap |->
                         MapSetAll(acc.precinctDistrictMap, GlobalIds(stateId, best[1])),
                       allUpdates |->
                         MapSetAll(acc.allUpdates, GlobalIds(stateId, best[1]))])
      : best \in RegionResults(reg, stateId, type, payload)}

\* self.onmessage: the set of possible outcomes [reg, success, data | error].
\* GENERATE_BORDERS and RUN_ANALYSIS (geometry and analysis collaborators)
\* are not among the task kinds submitted here.
onmessage(reg, msg) ==
  CASE msg.type = "PING" ->
         {[reg |-> reg, success |-> TRUE, data |-> [str |-> "PONG"]]}
    [] msg.type = "LOAD_DATA" ->
         {[reg |-> LoadAll(reg, msg.payload.precincts, 1),
           success |-> TRUE, data |-> [ack |-> TRUE]]}
    [] msg.type = "UPDATE_DISTRICT" ->
         {[reg |-> [reg EXCEPT !.precinctDistrictMap =
                      MapSet(@, msg.payload.precinctId, msg.payload.newDistrict)],
           success |-> TRUE, data |-> [ack |-> TRUE]]}
    [] msg.type \in {"AUTO_REDISTRICT", "SIMULATED_ANNEALING"} ->
         {[reg |-> [reg EXCEPT !.precinctDistrictMap = r.precinctDistrictMap],
           success |-> TRUE, data |-> [updates |-> r.allUpdates]]
            : r \in Redistrict(reg, StateIds(reg), msg.type, msg.payload,
                               [precinctDistrictMap |-> reg.precinctDistrictMap,
                                allUpdates |-> << >>])}
    [] OTHER ->
         {[reg |-> reg, success |-> FALSE,
           error |-> [str |-> "Unknown message type: " \o msg.type]]}

\* the WorkerResponse posted for a message
Response(msg, out) ==
  IF out.success
    THEN [id |-> msg.id, success |-> TRUE, data |-> out.data]
    ELSE [id |-> msg.id, success |-> FALSE, error |-> out.error]

\* new Worker(...): a fresh event loop with empty Maps
NewWorker == [inbox |-> << >>, outbox |-> << >>, reg |-> EmptyRegistry]

----------------------------------------------------------------------------
(* Scheduler: src/src/core/WorkerManager.ts *)

\* crypto.randomUUID(): a fresh id, here the creation number of the promise
randomUUID == Len(futures) + 1

\* FindIdle scanning from the end: the idle worker with the highest index
FindIdleLast(busy) ==
  IF \E i \in 1 .. Len(busy) : ~busy[i]
    THEN CHOOSE i \in 1 .. Len(busy) :
           ~busy[i] /\ \A j \in (i + 1) .. Len(busy) : busy[j]
    ELSE 0

\* Array.prototype.findIndex(busy => !busy), 0 for -1 (indices are 1-based here)
FindIdle(busy) ==
  IF \E i \in 1 .. Len(busy) : ~busy[i]
    THEN CHOOSE i \in 1 .. Len(busy) :
           ~busy[i] /\ \A j \in 1 .. (i - 1) : busy[j]
    ELSE 0

\* worker.postMessage(message)
PostMessage(ws, i, message) ==
  [ws EXCEPT ![i].inbox = Append(@, message)]

\* processQueue reading taskQueue[0] where the code calls taskQueue.shift()
processQueuePeek(st) ==
  IF Len(st.taskQueue) = 0 THEN st
  ELSE LET availableWorkerIndex == FindIdle(st.workerBusy) IN
    IF availableWorkerIndex = 0 THEN st
    ELSE LET task == Head(st.taskQueue) IN
      [taskQueue        |-> st.taskQueue,
       workerBusy       |-> [st.workerBusy EXCEPT ![availableWorkerIndex] = TRUE],
       pendingResponses |-> MapSet(st.pendingResponses, task.message.id, task.future),
       workers          |-> PostMessage(st.workers, availableWorkerIndex, task.message),
       posted           |-> [st.posted EXCEPT ![task.message.id] = @ + 1]]

\* processQueue that posts the task without setting the worker's busy flag
processQueueNoFlag(st) ==
  IF Len(st.taskQueue) = 0 THEN st
  ELSE LET availableWorkerIndex == FindIdle(st.workerBusy) IN
    IF availableWorkerIndex = 0 THEN st
    ELSE LET task == Head(st.taskQueue) IN
      [taskQueue        |-> Tail(st.taskQueue),
       workerBusy       |-> st.workerBusy,
       pendingResponses |-> MapSet(st.pendingResponses, task.message.id, task.future),
       workers          |-> PostMessage(st.workers, availableWorkerIndex, task.message),
       posted           |-> [st.posted EXCEPT ![task.message.id] = @ + 1]]

\* WorkerManager.processQueue on the scheduler state st
processQueue(st) ==
  IF Len(st.taskQueue) = 0 THEN st
  ELSE LET availableWorkerIndex == FindIdle(st.workerBusy) IN
    IF availableWorkerIndex = 0 THEN st
    ELSE LET task == Head(st.taskQueue) IN
      [taskQueue        |-> Tail(st.taskQueue),
       workerBusy       |-> [st.workerBusy EXCEPT ![availableWorkerIndex] = TRUE],
       pendingResponses |-> MapSet(st.pendingResponses, task.message.id, task.future),
       workers          |-> PostMessage(st.workers, availableWorkerIndex, task.message),
       posted           |-> [st.posted EXCEPT ![task.message.id] = @ + 1]]

SchedState ==
  [taskQueue |-> taskQueue, workerBusy |-> workerBusy,
   pendingResponses |-> pendingResponses, workers |-> workers, posted |-> posted]

SetSched(st) ==
  /\ taskQueue' = st.taskQueue
  /\ workerBusy' = st.workerBusy
  /\ pendingResponses' = st.pendingResponses
  /\ workers' = st.workers
  /\ posted' = st.posted

\* WorkerManager.sendMessage(type, payload)
sendMessage(type, payload) ==
  LET id == randomUUID
      message == [id |-> id, type |-> type, payload |-> payload]
      entry == [message |-> message, future |-> Len(futures) + 1]
  IN /\ futures' = Append(futures, [state |-> "pending"])
     /\ sent' = Append(sent, message)
     /\ settledBy' = Append(settledBy, 0)
     /\ SetSched(processQueue(
          [SchedState EXCEPT !.taskQueue = Append(taskQueue, entry),
                             !.posted = Append(posted, 0)]))
     /\ UNCHANGED <<poolSize, torn, tornAt>>

\* Settle where a failed response rejects every future that is still pending
SettleAbortAll(fs, found, response) ==
  [f \in DOMAIN fs |->
     IF response.success
       THEN IF f \in found
              THEN [state |-> "resolved", value |-> response.data]
              ELSE fs[f]
       ELSE IF fs[f].state = "pending"
              THEN [state |-> "rejected", value |-> response.error]
              ELSE fs[f]]

\* pending.resolve(response.data) / pending.reject(response.error)
\* on the futures fs, for the pending entries found (a set of futures)
Settle(fs, found, response) ==
  [f \in DOMAIN fs |->
     IF f \in found
       THEN IF response.success
              THEN [state |-> "resolved", value |-> response.data]
              ELSE [state |-> "rejected", value |-> response.error]
       ELSE fs[f]]

\* PendingGet correlating by arrival order: the oldest pending entry
PendingGetOldest(pend, response) ==
  IF DOMAIN pend = {} THEN 0
  ELSE pend[CHOOSE k \in DOMAIN pend : \A j \in DOMAIN pend : k <= j]

\* pendingResponses.get(response.id): the future found, 0 for undefined
PendingGet(pend, response) ==
  IF response.id \in DOMAIN pend THEN pend[response.id] ELSE 0

\* handleWorkerResponse without the closing processQueue call
handleWorkerResponseNoDrain(workerIndex) ==
  /\ workerIndex \in 1 .. Len(workers)
  /\ Len(workers[workerIndex].outbox) > 0
  /\ LET response == Head(workers[workerIndex].outbox)
         pending == PendingGet(pendingResponses, response)
     IN /\ futures' = Settle(futures, {pending} \ {0}, response)
        /\ settledBy' = [f \in DOMAIN settledBy |->
                           IF futures'[f] # futures[f] THEN response.id
                           ELSE settledBy[f]]
        /\ SetSched(
             [SchedState EXCEPT
                !.workerBusy = [workerBusy EXCEPT ![workerIndex] = FALSE],
                !.pendingResponses = MapDelete(pendingResponses, response.id),
                !.workers = [workers EXCEPT ![workerIndex].outbox = Tail(@)]])
  /\ UNCHANGED <<poolSize, torn, tornAt, sent>>

\* WorkerManager.handleWorkerResponse(workerIndex, response), run when the
\* message event of worker workerIndex is delivered
handleWorkerResponse(workerIndex) ==
  /\ workerIndex \in 1 .. Len(workers)
  /\ Len(workers[workerIndex].outbox) > 0
  /\ LET response == Head(workers[workerIndex].outbox)
         pending == PendingGet(pendingResponses, response)
     IN /\ futures' = Settle(futures, {pending} \ {0}, response)
        /\ settledBy' = [f \in DOMAIN settledBy |->
                           IF futures'[f] # futures[f] THEN response.id
                           ELSE settledBy[f]]
        /\ SetSched(processQueue(
             [SchedState EXCEPT
                !.workerBusy = [workerBusy EXCEPT ![workerIndex] = FALSE],
                !.pendingResponses = MapDelete(pendingResponses, response.id),
                !.workers = [workers EXCEPT ![workerIndex].outbox = Tail(@)]]))
  /\ UNCHANGED <<poolSize, torn, tornAt, sent>>

\* the worker's event loop runs self.onmessage on the oldest posted message
WorkerRun(i) ==
  /\ i \in 1 .. Len(workers)
  /\ Len(workers[i].inbox) > 0
  /\ LET msg == Head(workers[i].inbox) IN
       \E out \in onmessage(workers[i].reg, msg) :
         workers' = [workers EXCEPT ![i] =
                       [inbox |-> Tail(@.inbox),
                        outbox |-> Append(@.outbox, Response(msg, out)),
                        reg |-> out.reg]]
  /\ UNCHANGED <<workerBusy, poolSize, taskQueue, pendingResponses, futures,
                 torn, tornAt, sent, settledBy, posted>>

\* WorkerManager.addWorker on the pool p = [workers, workerBusy, poolSize]
addWorker(p) ==
  [p EXCEPT !.workers = Append(@, NewWorker),
            !.workerBusy = Append(@, FALSE)]

\* s without its last element (Array.prototype.pop)
Pop(s) == SubSeq(s, 1, Len(s) - 1)

\* WorkerManager.removeWorker
removeWorker(p) ==
  IF Len(p.workers) <= MinWorkers THEN p
  ELSE [workers |-> Pop(p.workers),
        workerBusy |-> Pop(p.workerBusy),
        poolSize |-> p.poolSize - 1]

RECURSIVE Times(_, _, _)
\* for (let i = 0; i < n; i++) step
Times(n, p, which) ==
  IF n <= 0 THEN p
  ELSE Times(n - 1, IF which = "add" THEN addWorker(p) ELSE removeWorker(p), which)

\* WorkerManager.resizePool(newSize) on the pool p
resizePoolOf(p, newSize) ==
  LET len == Len(p.workers)
      q == IF newSize > len THEN Times(newSize - len, p, "add")
           ELSE IF newSize < len THEN Times(len - newSize, p, "remove")
           ELSE p
  IN [q EXCEPT !.poolSize = newSize]

Pool == [workers |-> workers, workerBusy |-> workerBusy, poolSize |-> poolSize]

SetPool(p) ==
  /\ workers' = p.workers
  /\ workerBusy' = p.workerBusy
  /\ poolSize' = p.poolSize

resizePool(newSize) ==
  /\ SetPool(resizePoolOf(Pool, newSize))
  /\ UNCHANGED <<taskQueue, pendingResponses, futures, torn, tornAt, sent,
                 settledBy, posted>>

\* updateLoadOf shrinking at fps <= 30 where the code has fps < 30
updateLoadOfInclusive(p, queueLen, fps, memoryUsed) ==
  LET maxWorkers == Cores
      minWorkers == MinWorkers
  IN IF (fps <= LowFps \/ memoryUsed > HighMem) /\ Len(p.workers) > minWorkers
       THEN resizePoolOf(p, Len(p.workers) - 1)
     ELSE IF fps > HighFps /\ memoryUsed < LowMem /\ Len(p.workers) < maxWorkers
             /\ queueLen > QueueBacklog
       THEN resizePoolOf(p, Len(p.workers) + 1)
     ELSE p

\* WorkerManager.updateLoad(fps, memoryUsed) on the pool p
updateLoadOf(p, queueLen, fps, memoryUsed) ==
  LET maxWorkers == Cores
      minWorkers == MinWorkers
  IN IF (fps < LowFps \/ memoryUsed > HighMem) /\ Len(p.workers) > minWorkers
       THEN resizePoolOf(p, Len(p.workers) - 1)
     ELSE IF fps > HighFps /\ memoryUsed < LowMem /\ Len(p.workers) < maxWorkers
             /\ queueLen > QueueBacklog
       THEN resizePoolOf(p, Len(p.workers) + 1)
     ELSE p

updateLoad(fps, memoryUsed) ==
  /\ SetPool(updateLoadOf(Pool, Len(taskQueue), fps, memoryUsed))
  /\ UNCHANGED <<taskQueue, pendingResponses, futures, torn, tornAt, sent,
                 settledBy, posted>>

\* WorkerManager.terminate
terminate ==
  /\ workers' = << >>
  /\ workerBusy' = << >>
  /\ torn' = TRUE
  /\ tornAt' = Len(futures)
  /\ UNCHANGED <<poolSize, taskQueue, pendingResponses, futures, sent,
                 settledBy, posted>>

\* WorkerManager constructor: pool of max(1, min(cores - 2, 12)) idle workers
InitialPoolSize == Max(MinWorkers, Min(Cores - CoresReserved, MaxInitialPool))

Init ==
  /\ workers = [i \in 1 .. InitialPoolSize |-> NewWorker]
  /\ workerBusy = [i \in 1 .. InitialPoolSize |-> FALSE]
  /\ poolSize = InitialPoolSize
  /\ taskQueue = << >>
  /\ pendingResponses = << >>
  /\ futures = << >>
  /\ torn = FALSE
  /\ tornAt = 0
  /\ sent = << >>
  /\ settledBy = << >>
  /\ posted = << >>

----------------------------------------------------------------------------
(* Spec: the scheduler under liveness probes and an unknown task kind *)

NoPayload == [none |-> TRUE]

PoolInputs ==
  {[type |-> "PING", payload |-> NoPayload],
   [type |-> "PONG", payload |-> NoPayload]}

Submit ==
  /\ Len(futures) < MaxTasks
  /\ \E m \in PoolInputs : sendMessage(m.type, m.payload)

Deliver == \E i \in 1 .. Len(workers) : handleWorkerResponse(i)

Run == \E i \in 1 .. Len(workers) : WorkerRun(i)

Resize == \E n \in SizeValues : resizePool(n)

Load == \E fps \in FpsValues, mem \in MemValues : updateLoad(fps, mem)

Teardown == terminate

Next == Submit \/ Run \/ Deliver \/ Resize \/ Load \/ Teardown

Spec == Init /\ [][Next]_vars

----------------------------------------------------------------------------
(* SpecData: the data tasks of MapEngine and BrushManager on a pool of      *)
(* DataPoolSize workers                                                    *)

\* the precincts of the DataStore, as loadInitialData builds the LOAD_DATA
\* payload from them: the district id starts as the region id
Precinct(id, stateId, coords, population) ==
  [id |-> id, districtId |-> stateId, stateId |-> stateId, coords |-> coords,
   stats |-> <<population, population \div 2, population \div 4, population \div 2,
               population \div 4, population \div 4, 30, 50>>,
   slopes |-> <<2, 1, 1, 1, 0, 1>>]

DataStore ==
  <<Precinct(1, 1, <<0, 0, 2, 2>>, 100),
    Precinct(2, 1, <<4, 0, 6, 2>>, 200),
    Precinct(3, 2, <<0, 4, 2, 6>>, 200),
    Precinct(4, 3, <<4, 4, 6, 6>>, 200)>>

\* the batches LOAD_DATA is sent with: slices of the DataStore
Batches ==
  {SubSeq(DataStore, 1, 1), SubSeq(DataStore, 1, 2), SubSeq(DataStore, 3, 4), DataStore}

\* a population constraint as ConstraintsPanel builds it
PopulationAtLeast ==
  [id |-> "c1", metric |-> "population", metricType |-> "value",
   operator |-> ">=", value |-> 150, maxValue |-> << >>, targetPercent |-> 100]

RedistrictPayloads ==
  {[constraints |-> << >>, runs |-> 1, isAuto |-> FALSE],
   [constraints |-> <<PopulationAtLeast>>, runs |-> 2, isAuto |-> FALSE]}

DataInputs ==
  {[type |-> "LOAD_DATA", payload |-> [precincts |-> b]] : b \in Batches}
  \cup {[type |-> "UPDATE_DISTRICT",
         payload |-> [precinctId |-> 1, newDistrict |-> 2]]}
  \cup {[type |-> "AUTO_REDISTRICT", payload |-> pl] :
          pl \in {q \in RedistrictPayloads : Len(q.constraints) = 0}}
  \cup {[type |-> "SIMULATED_ANNEALING", payload |-> pl] : pl \in RedistrictPayloads}

SubmitData ==
  /\ Len(futures) < MaxDataTasks
  /\ \E m \in DataInputs : sendMessage(m.type, m.payload)

\* the state after the constructor and resizePool(DataPoolSize)
InitData ==
  LET p == resizePoolOf([workers |-> [i \in 1 .. InitialPoolSize |-> NewWorker],
                         workerBusy |-> [i \in 1 .. InitialPoolSize |-> FALSE],
                         poolSize |-> InitialPoolSize], DataPoolSize)
  IN /\ workers = p.workers
     /\ workerBusy = p.workerBusy
     /\ poolSize = p.poolSize
     /\ taskQueue = << >>
     /\ pendingResponses = << >>
     /\ futures = << >>
     /\ torn = FALSE
     /\ tornAt = 0
     /\ sent = << >>
     /\ settledBy = << >>
     /\ posted = << >>

NextData == SubmitData \/ Run \/ Deliver

SpecData == InitData /\ [][NextData]_vars

----------------------------------------------------------------------------
(* SpecRuns: SIMULATED_ANNEALING tasks over the payloads of the run count  *)

\* the lengths of the constraint list: 100 constraints reach the cap in
\* automatic mode
ConstraintCounts == {0, 99, 100}

RunValues == {0, 1, 50000, 50001}

RunPayloads ==
  {[constraints |-> [i \in 1 .. n |-> PopulationAtLeast], runs |-> r, isAuto |-> a]
     : n \in ConstraintCounts, r \in RunValues, a \in BOOLEAN}
  \cup {[constraints |-> [i \in 1 .. n |-> PopulationAtLeast], isAuto |-> a]
          : n \in ConstraintCounts, a \in BOOLEAN}
  \cup {[constraints |-> [i \in 1 .. n |-> PopulationAtLeast], runs |-> r]
          : n \in ConstraintCounts, r \in RunValues}

SubmitRuns ==
  /\ Len(futures) < MaxRunTasks
  /\ \E pl \in RunPayloads : sendMessage("SIMULATED_ANNEALING", pl)

NextRuns == SubmitRuns \/ Run \/ Deliver

SpecRuns == Init /\ [][NextRuns]_vars

----------------------------------------------------------------------------
(* SpecLive: a pool of DataPoolSize workers that is neither resized nor    *)
(* torn down; every worker answers what is posted to it and every answer   *)
(* is delivered                                                            *)

NextLive == Submit \/ Run \/ Deliver

Responsive ==
  \A i \in 1 .. DataPoolSize :
    WF_vars(WorkerRun(i)) /\ WF_vars(handleWorkerResponse(i))

SpecLive == InitData /\ [][NextLive]_vars /\ Responsive

----------------------------------------------------------------------------
(* SpecLoad: tasks piling up in the queue while the load signal            *)
(* resizes the pool                                                        *)

\* frame rates and memory readings on both sides of every threshold
LoadFpsValues == {29, 30, 55, 56}
LoadMemValues == {299, 300, 500, 501}

SubmitLoad ==
  /\ Len(futures) < MaxLoadTasks
  /\ \E m \in PoolInputs : sendMessage(m.type, m.payload)

LoadSignal == \E fps \in LoadFpsValues, mem \in LoadMemValues : updateLoad(fps, mem)

NextLoad == SubmitLoad \/ Run \/ Deliver \/ LoadSignal

SpecLoad == Init /\ [][NextLoad]_vars

----------------------------------------------------------------------------
(* SpecSeed: AUTO_REDISTRICT on one worker over precincts of region 1, two *)
(* of which have the same bounding-box centre                              *)

\* precincts 1 and 2 have the centroid (1, 1), precinct 3 is apart
SeedStore ==
  <<Precinct(1, 1, <<0, 0, 2, 2>>, 100),
    Precinct(2, 1, <<0, 1, 2, 1>>, 200),
    Precinct(3, 1, <<4, 0, 6, 2>>, 100)>>

SeedBatches ==
  {SubSeq(SeedStore, 1, 2), SubSeq(SeedStore, 2, 3), SubSeq(SeedStore, 3, 3),
   SeedStore}

SeedInputs ==
  {[type |-> "LOAD_DATA", payload |-> [precincts |-> b]] : b \in SeedBatches}
  \cup {[type |-> "AUTO_REDISTRICT",
         payload |-> [constraints |-> << >>, runs |-> 1, isAuto |-> FALSE]]}

SubmitSeed ==
  /\ Len(futures) < MaxSeedTasks
  /\ \E m \in SeedInputs : sendMessage(m.type, m.payload)

NextSeed == SubmitSeed \/ Run \/ Deliver

SpecSeed == Init /\ [][NextSeed]_vars

----------------------------------------------------------------------------
(* SpecCost: SIMULATED_ANNEALING on one worker under constraints whose     *)
(* bounds the district populations hit                                     *)

\* region 1 (2 districts) has populations 100, 200 and a precinct nobody
\* lives in; region 2 (1 district) has one precinct of population 100
CostStore ==
  <<Precinct(1, 1, <<0, 0, 2, 2>>, 100),
    Precinct(2, 1, <<4, 0, 6, 2>>, 200),
    Precinct(3, 1, <<8, 0, 10, 2>>, 0),
    Precinct(4, 2, <<0, 4, 2, 6>>, 100)>>

CostBatches == {CostStore}

PopulationConstraint(operator, value, maxValue, targetPercent) ==
  [id |-> "c1", metric |-> "population", metricType |-> "value",
   operator |-> operator, value |-> value, maxValue |-> maxValue,
   targetPercent |-> targetPercent]

AtLeast100 == PopulationConstraint(">=", 100, << >>, 100)
Between100And200 == PopulationConstraint("between", 100, <<200>>, 100)
Between200And300 == PopulationConstraint("between", 200, <<300>>, 50)

CostPayloads ==
  {[constraints |-> cs, runs |-> 1, isAuto |-> FALSE] :
     cs \in {<<AtLeast100>>, <<Between100And200>>,
             <<AtLeast100, Between200And300>>}}

CostInputs ==
  {[type |-> "LOAD_DATA", payload |-> [precincts |-> b]] : b \in CostBatches}
  \cup {[type |-> "SIMULATED_ANNEALING", payload |-> pl] : pl \in CostPayloads}

SubmitCost ==
  /\ Len(futures) < MaxCostTasks
  /\ \E m \in CostInputs : sendMessage(m.type, m.payload)

NextCost == SubmitCost \/ Run \/ Deliver

SpecCost == Init /\ [][NextCost]_vars

----------------------------------------------------------------------------
(* Properties of the scheduler *)

\* the number of places (inbox or outbox slots of the workers ws) holding id
HeldCount(ws, id) ==
  Cardinality({<<i, k>> \in (1 .. Len(ws)) \X (1 .. MaxTasks + 1) :
                 /\ k <= Len(ws[i].inbox) + Len(ws[i].outbox)
                 /\ (ws[i].inbox \o ws[i].outbox)[k].id = id})

\* id was posted to a worker of ws that has not answered it yet
HeldIn(ws, id) == HeldCount(ws, id) > 0

QueueCount(id) ==
  Cardinality({k \in 1 .. Len(taskQueue) : taskQueue[k].message.id = id})

Settled(f) == futures[f].state # "pending"

IsResize ==
  \/ \E n \in SizeValues : resizePool(n)
  \/ \E fps \in FpsValues, mem \in MemValues : updateLoad(fps, mem)

(* C1: every future that is settled was settled by the response carrying   *)
(* the id of the message created with it, whatever order workers answer in *)
TaskCorrelation ==
  \A f \in 1 .. Len(futures) : Settled(f) => settledBy[f] = sent[f].id

\* a later task is settled by its own response while an earlier one is still
\* in flight on another worker
OutOfOrderSettled ==
  \E a, b \in 1 .. Len(futures) :
    /\ a < b
    /\ Settled(b) /\ settledBy[b] = sent[b].id
    /\ ~Settled(a) /\ sent[a].id \in DOMAIN pendingResponses
    /\ HeldIn(workers, sent[a].id)

(* C2: a resize (resizePool or updateLoad) removes only workers whose busy *)
(* flag is false, so every task in flight before it is in flight after it  *)
ShrinkOnlyIdle ==
  [][IsResize =>
       /\ \A i \in (Len(workers') + 1) .. Len(workers) : ~workerBusy[i]
       /\ \A id \in DOMAIN pendingResponses :
            HeldIn(workers, id) => HeldIn(workers', id)]_vars

(* C3: once terminate() has been called, a sendMessage returns a future    *)
(* that is rejected, not one left pending with its task in the queue       *)
SubmitAfterTeardownFails ==
  [][(torn /\ Len(futures') = Len(futures) + 1) =>
       futures'[Len(futures')].state = "rejected"]_vars

(* C4: every message id is posted to a worker at most once; it is in the   *)
(* queue exactly until it is posted and never again; at most one worker    *)
(* holds it                                                                *)
ConsumedOnce ==
  \A id \in 1 .. Len(posted) :
    /\ posted[id] <= 1
    /\ QueueCount(id) = 1 - posted[id]
    /\ HeldCount(workers, id) <= posted[id]

\* one task posted and answered, another still queued, after a resize
ConsumedAcrossResize ==
  \E a, b \in 1 .. Len(posted) :
    /\ posted[a] = 1 /\ Settled(a)
    /\ posted[b] = 0 /\ QueueCount(b) = 1
    /\ Len(workers) # InitialPoolSize

(* C6: resizePool and updateLoad keep the number of workers within         *)
(* [1, ceiling]; a resizePool request below 1 or above the ceiling changes *)
(* neither the worker list, nor the busy flags, nor poolSize               *)
PoolResizeBounds ==
  [][/\ (IsResize /\ Len(workers) \in MinWorkers .. Cores) =>
          Len(workers') \in MinWorkers .. Cores
     /\ \A n \in SizeValues :
          (resizePool(n) /\ (n < MinWorkers \/ n > Cores)) =>
             UNCHANGED <<workers, workerBusy, poolSize>>]_vars

(* C7: terminate() leaves the worker list, the busy flags and the task     *)
(* queue empty, and no future that existed at teardown is settled later    *)
TeardownDiscards ==
  [][/\ terminate =>
          (workers' = << >> /\ workerBusy' = << >> /\ taskQueue' = << >>)
     /\ torn => \A f \in 1 .. tornAt : futures'[f] = futures[f]]_vars

(* C8: when the response delivered from worker w has success = false, the  *)
(* future of that task, and no other, is rejected with the error string;   *)
(* every other in-flight task stays in flight; the oldest queued task, if  *)
(* any, is dispatched; w is busy afterwards only with a newly posted task  *)
ErrorIsLocal ==
  [][\A w \in 1 .. Len(workers) :
       (/\ Len(workers[w].outbox) > 0
        /\ ~Head(workers[w].outbox).success
        /\ handleWorkerResponse(w)) =>
          LET r == Head(workers[w].outbox) IN
            /\ r.id \in DOMAIN pendingResponses
            /\ futures'[pendingResponses[r.id]] =
                 [state |-> "rejected", value |-> r.error]
            /\ \A f \in 1 .. Len(futures) :
                 f # pendingResponses[r.id] => futures'[f] = futures[f]
            /\ \A id \in DOMAIN pendingResponses \ {r.id} :
                 /\ id \in DOMAIN pendingResponses'
                 /\ HeldCount(workers', id) = HeldCount(workers, id)
            /\ taskQueue # << >> =>
                 /\ taskQueue' = Tail(taskQueue)
                 /\ HeldIn(workers', Head(taskQueue).message.id)
            /\ workerBusy'[w] =
                 (Len(workers'[w].inbox) > Len(workers[w].inbox))]_vars

\* an unknown task kind was rejected with its error string and a task
\* submitted after it was resolved
RejectedThenResolved ==
  \E f, g \in 1 .. Len(futures) :
    /\ f < g
    /\ futures[f].state = "rejected"
    /\ futures[f].value = [str |-> "Unknown message type: PONG"]
    /\ futures[g].state = "resolved"

----------------------------------------------------------------------------
(* Properties of the worker registries *)

Redistricting == {"AUTO_REDISTRICT", "SIMULATED_ANNEALING"}

Apportioned(stateId) == stateId \in DOMAIN STATE_APPORTIONMENT

\* worker w has just answered a redistricting task and run nothing since
JustRedistricted(w) ==
  /\ Len(workers[w].outbox) > 0
  /\ Len(workers[w].inbox) = 0
  /\ \E m \in {sent[f] : f \in 1 .. Len(sent)} :
       /\ m.id = workers[w].outbox[Len(workers[w].outbox)].id
       /\ m.type \in Redistricting

\* the precincts worker w holds that belong to a region with an apportionment entry
ApportionedHeld(w) ==
  LET reg == workers[w].reg IN
    {id \in DOMAIN reg.precinctDistrictMap \cap DOMAIN reg.precinctStateMap :
       Apportioned(reg.precinctStateMap[id])}

(* C5: a resolved AUTO_REDISTRICT or SIMULATED_ANNEALING response has an   *)
(* update for every precinct of an apportioned region that a LOAD_DATA     *)
(* submitted before it carried                                             *)
EveryWorkerSeesLoadedData ==
  \A f \in 1 .. Len(futures) :
    (sent[f].type \in Redistricting /\ futures[f].state = "resolved") =>
      \A g \in 1 .. (f - 1) :
        sent[g].type = "LOAD_DATA" =>
          \A i \in 1 .. Len(sent[g].payload.precincts) :
            Apportioned(sent[g].payload.precincts[i].stateId) =>
              sent[g].payload.precincts[i].id \in DOMAIN futures[f].value.updates

(* C9: on a worker that has just answered a redistricting task, every      *)
(* precinct of an apportioned region has district id                       *)
(* regionId * 100 + local with 1 <= local <= the region's district count   *)
NamespacedDistrictIds ==
  \A w \in 1 .. Len(workers) :
    JustRedistricted(w) =>
      \A id \in ApportionedHeld(w) :
        LET stateId == workers[w].reg.precinctStateMap[id] IN
          \E local \in 1 .. STATE_APPORTIONMENT[stateId].districts :
            workers[w].reg.precinctDistrictMap[id] =
              stateId * DistrictNamespace + local

(* C10: on a worker that has just answered a redistricting task, two       *)
(* precincts of different apportioned regions have different district ids  *)
DistrictIdsUniqueAcrossRegions ==
  \A w \in 1 .. Len(workers) :
    JustRedistricted(w) =>
      \A a, b \in ApportionedHeld(w) :
        workers[w].reg.precinctStateMap[a] # workers[w].reg.precinctStateMap[b] =>
          workers[w].reg.precinctDistrictMap[a] # workers[w].reg.precinctDistrictMap[b]

----------------------------------------------------------------------------
(* Properties of the cost model and of the registry *)

\* worker w is about to run a SIMULATED_ANNEALING task
AboutToAnneal(w) ==
  /\ Len(workers[w].inbox) > 0
  /\ Head(workers[w].inbox).type = "SIMULATED_ANNEALING"

\* the sum of the population aggregates of all entries of districtStatsBuffer
AggregatedPop(ps, districtCount, assignment) ==
  SumOver([d \in 0 .. districtCount |->
             districtStatsBuffer(ps, districtCount, assignment)[d][1]],
          0 .. districtCount)

(* C11: for every apportioned region of a worker about to run              *)
(* SIMULATED_ANNEALING, the per-district population aggregates of the      *)
(* initial assignment and of every assignment the run can return sum to    *)
(* the total population of the region's precincts                          *)
PopulationConserved ==
  \A w \in 1 .. Len(workers) :
    AboutToAnneal(w) =>
      \A stateId \in StateIds(workers[w].reg) \cap DOMAIN STATE_APPORTIONMENT :
        LET ps == StatePrecincts(workers[w].reg, stateId)
            districtCount == STATE_APPORTIONMENT[stateId].districts
            initial == [id \in Ids(ps) |-> ById(ps, id).districtId]
            constraints == Head(workers[w].inbox).payload.constraints
        IN /\ AggregatedPop(ps, districtCount, initial) = TotalPop(ps)
           /\ \A r \in simulatedAnnealing(ps, districtCount, constraints) :
                AggregatedPop(ps, districtCount, r.assignment) = TotalPop(ps)

(* C12: on every worker, every precinct present in the registry (it has a *)
(* region and statistics) has a district id                               *)
AssignmentTotal ==
  \A w \in 1 .. Len(workers) :
    LET reg == workers[w].reg IN
      (DOMAIN reg.precinctStateMap \cup DOMAIN reg.precinctStatsMap)
        \subseteq DOMAIN reg.precinctDistrictMap

\* a worker holding all four precincts has answered a redistricting task
FullRegistryRedistricted ==
  \E w \in 1 .. Len(workers) :
    /\ JustRedistricted(w)
    /\ DOMAIN workers[w].reg.precinctStateMap = {1, 2, 3, 4}
    /\ DOMAIN workers[w].reg.precinctDistrictMap = {1, 2, 3, 4}

\* worker w is about to run an AUTO_REDISTRICT task
AboutToSeed(w) ==
  /\ Len(workers[w].inbox) > 0
  /\ Head(workers[w].inbox).type = "AUTO_REDISTRICT"

\* the map seedAndGrow builds from the centers chosen
GrownFrom(ps, centers) ==
  [id \in Ids(ps) |-> ClosestFrom(ById(ps, id), centers, 1, -1, 1)]

CenterIds(centers) == {centers[j].id : j \in 1 .. Len(centers)}

\* every map seedAndGrow can return for the precincts ps has the property
\* Good(ps, a, centers) for the centers it was grown from
SeedingHas(Good(_, _, _)) ==
  \A w \in 1 .. Len(workers) :
    AboutToSeed(w) =>
      \A stateId \in StateIds(workers[w].reg) \cap DOMAIN STATE_APPORTIONMENT :
        LET ps == StatePrecincts(workers[w].reg, stateId)
            districtCount == STATE_APPORTIONMENT[stateId].districts
        IN \A a \in seedAndGrow(ps, districtCount) :
             \E centers \in PickCenters(ps, districtCount, 0, {}, << >>) :
               /\ a = GrownFrom(ps, centers)
               /\ DOMAIN a = Ids(ps)
               /\ \A id \in Ids(ps) :
                    a[id] \in CenterIds(centers) /\ a[id] \in 1 .. districtCount
               /\ Good(ps, a, centers)

NoneKept(ps, a, centers) == \A id \in Ids(ps) : a[id] # ById(ps, id).districtId

AnyMap(ps, a, centers) == TRUE

(* C13 as stated: seedAndGrow assigns every input precinct the id of one   *)
(* of the chosen centers, a value in 1..districtCount, and no precinct     *)
(* keeps its original district id                                          *)
SeedingChangesEveryId == SeedingHas(NoneKept)

(* C13 amended: seedAndGrow assigns every input precinct the id of one of  *)
(* the chosen centers, a value in 1..districtCount (the id may equal the   *)
(* precinct's original district id)                                        *)
SeedingAssignsCenterIds == SeedingHas(AnyMap)

\* a worker is about to seed a region that has fewer precincts than districts
SeedingCases ==
  \E w \in 1 .. Len(workers) :
    /\ AboutToSeed(w)
    /\ \E stateId \in StateIds(workers[w].reg) \cap DOMAIN STATE_APPORTIONMENT :
         Cardinality(StatePrecincts(workers[w].reg, stateId))
           < STATE_APPORTIONMENT[stateId].districts

\* the message of the last response worker w has posted, when it is of type t
LastAnswered(w, t) ==
  {m \in {sent[f] : f \in 1 .. Len(sent)} :
     /\ Len(workers[w].outbox) > 0
     /\ m.id = workers[w].outbox[Len(workers[w].outbox)].id
     /\ m.type = t}

(* C14: for a SIMULATED_ANNEALING task of N >= 2 runs, in every apportioned *)
(* region and for every N run results, an assignment is retained and its   *)
(* cost is at most the cost returned by each of the N runs                 *)
EnsembleKeepsBest ==
  \A w \in 1 .. Len(workers) :
    (AboutToAnneal(w) /\ RunsOf(Head(workers[w].inbox).payload) >= 2) =>
      \A stateId \in StateIds(workers[w].reg) \cap DOMAIN STATE_APPORTIONMENT :
        LET payload == Head(workers[w].inbox).payload
            ps == StatePrecincts(workers[w].reg, stateId)
            districtCount == STATE_APPORTIONMENT[stateId].districts
            results == simulatedAnnealing(ps, districtCount, payload.constraints)
        IN \A rs \in [1 .. RunsOf(payload) -> results] :
             LET best == BestOf(rs, 1, -1, << >>) IN
               /\ best # << >>
               /\ \A j \in 1 .. Len(rs) :
                    calculateCost(ps, districtCount, payload.constraints, best[1])
                      <= rs[j].cost

\* a worker has answered a two-run SIMULATED_ANNEALING task for a region
\* whose runs can return different costs
EnsembleRan ==
  \E w \in 1 .. Len(workers) :
    /\ \E m \in LastAnswered(w, "SIMULATED_ANNEALING") : RunsOf(m.payload) >= 2
    /\ {1, 2} \subseteq DOMAIN workers[w].reg.precinctStateMap
    /\ workers[w].reg.precinctDistrictMap[1] # workers[w].reg.precinctDistrictMap[2]

EnsembleRuns(payload) == Cardinality(0 .. (RunsOf(payload) - 1))

(* C16: the ensemble of a SIMULATED_ANNEALING task runs                    *)
(* min(50000, 100 + 500 * constraintCount) times when isAuto is true and   *)
(* min(50000, runs) times otherwise, runs being 1 when absent              *)
EnsembleRunCount ==
  \A w \in 1 .. Len(workers) :
    AboutToAnneal(w) =>
      LET payload == Head(workers[w].inbox).payload
          auto == "isAuto" \in DOMAIN payload /\ payload.isAuto
          runs == IF "runs" \in DOMAIN payload THEN payload.runs ELSE 1
      IN EnsembleRuns(payload) =
           IF auto THEN Min(50000, 100 + 500 * Len(payload.constraints))
           ELSE Min(50000, runs)

\* answered: an automatic task at the cap, and a task without a run count
RunCountCases ==
  \E w \in 1 .. Len(workers) :
    /\ \E m \in LastAnswered(w, "SIMULATED_ANNEALING") :
         /\ "runs" \notin DOMAIN m.payload
         /\ ~m.payload.isAuto
    /\ \E f \in 1 .. Len(sent) :
         /\ futures[f].state = "resolved"
         /\ "isAuto" \in DOMAIN sent[f].payload
         /\ sent[f].payload.isAuto
         /\ Len(sent[f].payload.constraints) = 100

\* the precincts worker w holds that belong to a region without an
\* apportionment entry
SkippedHeld(w) ==
  LET reg == workers[w].reg IN
    {id \in DOMAIN reg.precinctDistrictMap \cap DOMAIN reg.precinctStateMap :
       ~Apportioned(reg.precinctStateMap[id])}

\* worker w runs the redistricting task at the head of its inbox in this step
RunsRedistricting(w) ==
  /\ w \in 1 .. Len(workers)
  /\ Len(workers) = Len(workers')
  /\ Len(workers[w].inbox) > 0
  /\ Head(workers[w].inbox).type \in Redistricting
  /\ RunsOf(Head(workers[w].inbox).payload) >= 1
  /\ workers'[w].inbox = Tail(workers[w].inbox)
  /\ Len(workers'[w].outbox) = Len(workers[w].outbox) + 1

(* C17: when a worker runs AUTO_REDISTRICT or SIMULATED_ANNEALING, the     *)
(* response is a success, it has an update for exactly the precincts of    *)
(* the regions with an apportionment entry, and the precincts of a region  *)
(* without one keep their district ids                                     *)
RegionSkipped ==
  [][\A w \in 1 .. Len(workers) :
       RunsRedistricting(w) =>
         LET response == workers'[w].outbox[Len(workers'[w].outbox)] IN
           /\ response.success
           /\ DOMAIN response.data.updates = ApportionedHeld(w)
           /\ \A id \in SkippedHeld(w) :
                workers'[w].reg.precinctDistrictMap[id]
                  = workers[w].reg.precinctDistrictMap[id]]_vars

\* a worker holding precinct 4 (region 3, no apportionment entry) has
\* answered a redistricting task with updates for other regions
SkippedBesideUpdated ==
  \E w \in 1 .. Len(workers) :
    /\ JustRedistricted(w)
    /\ 4 \in SkippedHeld(w)
    /\ ApportionedHeld(w) # {}
    /\ workers[w].outbox[Len(workers[w].outbox)].success

----------------------------------------------------------------------------
(* Properties of dispatch *)

(* C18: between handlers, a task waits in the queue only if every worker   *)
(* of the pool is busy                                                     *)
WorkConserving ==
  taskQueue # << >> => \A i \in 1 .. Len(workerBusy) : workerBusy[i]

(* C19: in a pool that is not resized or torn down and whose workers     *)
(* answer, every submitted task is eventually posted to a worker and its   *)
(* future is eventually resolved or rejected                               *)
EveryTaskSettles ==
  \A f \in 1 .. MaxTasks :
    [](Len(futures) >= f =>
         <>(Len(futures) >= f /\ posted[f] = 1 /\ Settled(f)))

\* a task waits in the queue behind busy workers after an earlier task was
\* settled
WaitingBehindBusy ==
  /\ Len(workers) = DataPoolSize
  /\ taskQueue # << >>
  /\ \A i \in 1 .. Len(workerBusy) : workerBusy[i]
  /\ \E f \in 1 .. Len(futures) : Settled(f) /\ posted[f] = 1

\* the queue as processQueue finds it in this step: with the new task when
\* the step is a sendMessage
QueueAtDispatch ==
  IF Len(futures') > Len(futures)
    THEN Append(taskQueue, [message |-> sent'[Len(sent')], future |-> Len(futures')])
    ELSE taskQueue

\* the message id is posted to a worker in this step
Dispatched(id) ==
  /\ id \in 1 .. Len(posted')
  /\ posted'[id] = (IF id <= Len(posted) THEN posted[id] ELSE 0) + 1

\* worker i answers in this step, so its busy flag is cleared before dispatch
Answers(i) ==
  /\ i <= Len(workers)
  /\ Len(workers'[i].outbox) < Len(workers[i].outbox)

(* C20: a task that is dispatched is the oldest of the queue, the rest of  *)
(* the queue keeps its order, and the task is posted to the idle worker    *)
(* with the lowest index                                                   *)
DispatchOldestToFirstIdle ==
  [][\A id \in 1 .. MaxTasks :
       Dispatched(id) =>
         /\ Head(QueueAtDispatch).message.id = id
         /\ taskQueue' = Tail(QueueAtDispatch)
         /\ \E i \in 1 .. Len(workers') :
              /\ Len(workers'[i].inbox) > 0
              /\ workers'[i].inbox[Len(workers'[i].inbox)].id = id
              /\ ~workerBusy[i] \/ Answers(i)
              /\ workerBusy'[i]
              /\ \A j \in 1 .. (i - 1) : workerBusy[j] /\ ~Answers(j)]_vars

\* worker 2 was given a task while worker 1 was busy with an older one, and
\* a younger task waits
SecondWorkerTaken ==
  /\ Len(workers) >= 2
  /\ workerBusy[1] /\ workerBusy[2]
  /\ Len(workers[1].inbox) > 0 /\ Len(workers[2].inbox) > 0
  /\ workers[1].inbox[1].id < workers[2].inbox[1].id
  /\ taskQueue # << >>
  /\ workers[2].inbox[1].id < Head(taskQueue).message.id

----------------------------------------------------------------------------
(* Properties of the pool's bookkeeping *)

\* the tasks posted to the worker w of ws that it has not answered, or whose
\* answer is not delivered yet
InFlightOn(ws, w) == Len(ws[w].inbox) + Len(ws[w].outbox)

(* C21: every worker has at most one task in flight, its busy flag is set  *)
(* while it has one, and a step posts a task only to a worker that has     *)
(* none before the post                                                    *)
SerializedAccess ==
  [][/\ \A w \in 1 .. Len(workers) :
          /\ InFlightOn(workers, w) <= 1
          /\ InFlightOn(workers, w) = 1 => workerBusy[w]
     /\ \A w \in 1 .. Len(workers') :
          (w <= Len(workers) /\ Len(workers'[w].inbox) > Len(workers[w].inbox))
            => (Len(workers[w].inbox) = 0 /\ Len(workers'[w].outbox) = 0)]_vars

\* after a resize two workers each hold one task and a third task waits
TwoBusyAfterResize ==
  /\ Len(workers) >= 2
  /\ Len(workers) # InitialPoolSize
  /\ InFlightOn(workers, 1) = 1 /\ InFlightOn(workers, 2) = 1
  /\ taskQueue # << >>

\* the ids posted to a worker whose future is still pending
PostedUnanswered ==
  {id \in 1 .. Len(posted) : posted[id] >= 1 /\ ~Settled(id)}

BusyCount == Cardinality({w \in 1 .. Len(workerBusy) : workerBusy[w]})

(* C22: as long as the pool has not been torn down, the pending-response  *)
(* table holds exactly the tasks posted to a worker and not yet answered,  *)
(* and it has as many entries as there are workers whose busy flag is set  *)
PendingTableConsistent ==
  ~torn =>
    /\ DOMAIN pendingResponses = PostedUnanswered
    /\ Cardinality(DOMAIN pendingResponses) = BusyCount

(* C23: one updateLoad(fps, mem) call removes one worker when              *)
(* (fps < 30 or mem > 500) and there is more than 1 worker; otherwise it   *)
(* adds one worker when fps > 55, mem < 300, there are fewer workers than  *)
(* cores and more than 5 tasks are queued; otherwise the pool is unchanged *)
AdaptivePolicyStep ==
  [][\A fps \in LoadFpsValues, mem \in LoadMemValues :
       updateLoad(fps, mem) =>
         LET shrink == (fps < 30 \/ mem > 500) /\ Len(workers) > 1
             grow == /\ ~shrink
                     /\ fps > 55 /\ mem < 300
                     /\ Len(workers) < Cores /\ Len(taskQueue) > 5
         IN /\ shrink => Len(workers') = Len(workers) - 1
            /\ grow => Len(workers') = Len(workers) + 1
            /\ (~shrink /\ ~grow) => UNCHANGED <<workers, workerBusy, poolSize>>
            /\ Len(workerBusy') = Len(workers')
            /\ poolSize' = Len(workers') \/ (~shrink /\ ~grow)]_vars

\* the pool has grown to all cores while more than 5 tasks wait
GrownUnderBacklog ==
  /\ Len(workers) = Cores
  /\ Len(taskQueue) > 5

----------------------------------------------------------------------------
(* Properties of the annealing loop and of the cost model *)

\* the assignments a and b differ at exactly one precinct
OneMoved(a, b) == Cardinality({id \in DOMAIN a : a[id] # b[id]}) = 1

(* C24: for every state {assignment, cost} the annealing loop can be in    *)
(* after an iteration, and so for every result, the tracked cost is the    *)
(* cost model's value for the assignment; one more iteration either moves  *)
(* one precinct and tracks the new assignment's cost, or leaves both the   *)
(* assignment and the cost as they were                                    *)
AnnealingStateConsistent ==
  \A w \in 1 .. Len(workers) :
    AboutToAnneal(w) =>
      \A stateId \in StateIds(workers[w].reg) \cap DOMAIN STATE_APPORTIONMENT :
        LET ps == StatePrecincts(workers[w].reg, stateId)
            districtCount == STATE_APPORTIONMENT[stateId].districts
            constraints == Head(workers[w].inbox).payload.constraints
        IN \A s \in simulatedAnnealing(ps, districtCount, constraints) :
             /\ s.cost = calculateCost(ps, districtCount, constraints, s.assignment)
             /\ \A t \in SAStep(ps, districtCount, constraints, s) :
                  /\ t.cost = calculateCost(ps, districtCount, constraints,
                                            t.assignment)
                  /\ t = s \/ OneMoved(s.assignment, t.assignment)

\* a worker has answered a constrained SIMULATED_ANNEALING task for region 1,
\* where a proposal can cost more and be rejected
ConstrainedAnnealed ==
  \E w \in 1 .. Len(workers) :
    /\ \E m \in LastAnswered(w, "SIMULATED_ANNEALING") :
         Len(m.payload.constraints) > 0
    /\ {1, 2} \subseteq ApportionedHeld(w)

----------------------------------------------------------------------------
(* Properties of seeding *)

\* the apportioned regions of worker w that have at least as many precincts
\* as districts
SeedableRegions(w) ==
  {stateId \in StateIds(workers[w].reg) \cap DOMAIN STATE_APPORTIONMENT :
     Cardinality(StatePrecincts(workers[w].reg, stateId))
       >= STATE_APPORTIONMENT[stateId].districts}

(* C26: for a region with at least districtCount precincts, every outcome  *)
(* of the seed loop has exactly districtCount centers, with the ids        *)
(* 1..districtCount                                                        *)
SeedsComplete ==
  \A w \in 1 .. Len(workers) :
    AboutToSeed(w) =>
      \A stateId \in SeedableRegions(w) :
        LET ps == StatePrecincts(workers[w].reg, stateId)
            districtCount == STATE_APPORTIONMENT[stateId].districts
        IN \A centers \in PickCenters(ps, districtCount, 0, {}, << >>) :
             /\ Len(centers) = districtCount
             /\ CenterIds(centers) = 1 .. districtCount

(* C27: for a region with at least districtCount precincts, whenever the  *)
(* seed loop has chosen all districtCount centers, every district id in    *)
(* 1..districtCount has at least one precinct in seedAndGrow's result,     *)
(* also when precincts share a centroid                                    *)
NoEmptyDistrictAfterSeeding ==
  \A w \in 1 .. Len(workers) :
    AboutToSeed(w) =>
      \A stateId \in SeedableRegions(w) :
        LET ps == StatePrecincts(workers[w].reg, stateId)
            districtCount == STATE_APPORTIONMENT[stateId].districts
        IN \A centers \in PickCenters(ps, districtCount, 0, {}, << >>) :
             Len(centers) = districtCount =>
               \A d \in 1 .. districtCount :
                 \E id \in Ids(ps) : GrownFrom(ps, centers)[id] = d

----------------------------------------------------------------------------
(* Properties of the cost function *)

\* the apportioned regions worker w holds
AnnealedRegions(w) == StateIds(workers[w].reg) \cap DOMAIN STATE_APPORTIONMENT

\* the assignments of the precincts ps to the districts 1 .. districtCount
LocalAssignments(ps, districtCount) == [Ids(ps) -> 1 .. districtCount]

\* the population of the precincts that assignment a puts in district d
DistrictPop(ps, a, d) ==
  SumOver([id \in Ids(ps) |-> ById(ps, id).stats[1]],
          {id \in Ids(ps) : a[id] = d})

\* the districts of 1 .. districtCount somebody lives in
Populated(ps, districtCount, a) ==
  {d \in 1 .. districtCount : DistrictPop(ps, a, d) # 0}

\* what constraint c alone adds to the cost of assignment a, times CostDen
Penalty(ps, districtCount, c, a) ==
  calculateCost(ps, districtCount, <<c>>, a)
    - calculateCost(ps, districtCount, << >>, a)

\* P holds of every region, payload constraints and assignment that a
\* worker about to run SIMULATED_ANNEALING can give to calculateCost
CostHas(P(_, _, _, _)) ==
  \A w \in 1 .. Len(workers) :
    AboutToAnneal(w) =>
      \A stateId \in AnnealedRegions(w) :
        LET ps == StatePrecincts(workers[w].reg, stateId)
            districtCount == STATE_APPORTIONMENT[stateId].districts
            constraints == Head(workers[w].inbox).payload.constraints
        IN \A a \in LocalAssignments(ps, districtCount)
                      \cup {[id \in Ids(ps) |-> ById(ps, id).districtId]} :
             P(ps, districtCount, constraints, a)

\* a worker has answered a SIMULATED_ANNEALING task with constraints and
\* now holds the district ids given
AnnealedTo(cs, districts) ==
  \E w \in 1 .. Len(workers) :
    /\ \E m \in LastAnswered(w, "SIMULATED_ANNEALING") : m.payload.constraints = cs
    /\ \A id \in DOMAIN districts :
         /\ id \in DOMAIN workers[w].reg.precinctDistrictMap
         /\ workers[w].reg.precinctDistrictMap[id] = districts[id]

EmptyExcluded(ps, districtCount, constraints, a) ==
  LET populated == Populated(ps, districtCount, a)
      n == IF populated = {} THEN 1 ELSE Cardinality(populated)
  IN /\ calculateCost(ps, districtCount, << >>, a)
          * (IF TotalPop(ps) = 0 THEN 1 ELSE TotalPop(ps))
          = CostDen(ps, districtCount)
              * SumOver([d \in 1 .. districtCount |->
                           Abs(districtCount * DistrictPop(ps, a, d) - TotalPop(ps))],
                        populated)
     /\ \A i \in 1 .. Len(constraints) :
          LET c == constraints[i]
              meeting ==
                {d \in populated :
                   Meets(c, Rat(DistrictPop(ps, a, d), 1))}
          IN n * Penalty(ps, districtCount, c, a)
               = 10 * CostDen(ps, districtCount)
                   * Abs(100 * Cardinality(meeting) - c.targetPercent * n)

(* C28: a district whose aggregated population is zero adds nothing to the *)
(* population deviation, and is counted neither among the districts that   *)
(* meet a constraint nor among the districts the percentage is taken over  *)
EmptyDistrictsExcluded == CostHas(EmptyExcluded)

\* a constrained run has left district 2 of region 1 with the precinct
\* nobody lives in only
AnnealedWithEmptyDistrict ==
  AnnealedTo(<<AtLeast100>>, (1 :> 101) @@ (2 :> 101) @@ (3 :> 102))

PenaltyAdded(ps, districtCount, constraints, a) ==
  LET populated == Populated(ps, districtCount, a)
      n == IF populated = {} THEN 1 ELSE Cardinality(populated)
      stats == districtStatsBuffer(ps, districtCount, a)
      slopes == districtSlopesBuffer(ps, districtCount, a)
      Meeting(c) ==
        {d \in populated : Meets(c, MetricValue(c, stats[d], slopes[d]))}
  IN /\ calculateCost(ps, districtCount, constraints, a)
          = calculateCost(ps, districtCount, << >>, a)
              + SumOver([i \in 1 .. Len(constraints) |->
                           Penalty(ps, districtCount, constraints[i], a)],
                        1 .. Len(constraints))
     /\ \A i \in 1 .. Len(constraints) :
          LET c == constraints[i] IN
            /\ n * Penalty(ps, districtCount, c, a)
                 = 10 * CostDen(ps, districtCount)
                     * Abs(100 * Cardinality(Meeting(c)) - c.targetPercent * n)
            /\ (populated # {} /\ Meeting(c) = populated /\ c.targetPercent = 100)
                 => Penalty(ps, districtCount, c, a) = 0
            /\ (c = AtLeast100 /\ \E d \in 1 .. districtCount :
                                    populated = {d} /\ DistrictPop(ps, a, d) = 100)
                 => Penalty(ps, districtCount, c, a) = 0

(* C29: every constraint adds |percentMeeting - targetPercent| * 10 to the *)
(* cost, percentMeeting being the percentage of the populated districts    *)
(* that meet it; a constraint with targetPercent 100 that every populated  *)
(* district meets adds nothing, as population >= 100 does on a single      *)
(* district of population 100                                              *)
ConstraintPenalty == CostHas(PenaltyAdded)

\* a run under population >= 100 has put the one precinct of region 2, of
\* population 100, in the region's single district
AnnealedSingleDistrict == AnnealedTo(<<AtLeast100>>, (4 :> 201))

BetweenMeets(ps, districtCount, constraints, a) ==
  LET populated == Populated(ps, districtCount, a)
      n == IF populated = {} THEN 1 ELSE Cardinality(populated)
      stats == districtStatsBuffer(ps, districtCount, a)
      slopes == districtSlopesBuffer(ps, districtCount, a)
  IN \A i \in 1 .. Len(constraints) :
       LET c == constraints[i]
           within ==
             {d \in populated :
                /\ c.value <= DistrictPop(ps, a, d)
                /\ DistrictPop(ps, a, d) <= c.maxValue[1]}
       IN (c.operator = "between" /\ c.maxValue # << >>) =>
            /\ \A d \in populated :
                 Meets(c, MetricValue(c, stats[d], slopes[d])) <=> d \in within
            /\ n * Penalty(ps, districtCount, c, a)
                 = 10 * CostDen(ps, districtCount)
                     * Abs(100 * Cardinality(within) - c.targetPercent * n)

(* C30: under a 'between' constraint a populated district counts as        *)
(* meeting the constraint exactly when value <= metric <= maxValue, the    *)
(* two bounds included                                                     *)
BetweenInclusive == CostHas(BetweenMeets)

\* a run under population between 100 and 200 has left the two districts
\* of region 1 with the populations 100 and 200, one on each bound
AnnealedOnBothBounds ==
  AnnealedTo(<<Between100And200>>, (1 :> 101) @@ (2 :> 102))

====
